---- MODULE Spec2Model ----
(***************************************************************************)
(* Model of the barter-data subscription layer: Subscription validation,   *)
(* the Binance candle channel / SubscriptionId mapping, the Binance kline  *)
(* decoder and its transformation into the normalised Candle event, the    *)
(* SubscriptionId -> Instrument Map, the per-batch connection group, and   *)
(* the Streams registry with select() and join() over the groups.          *)
(***************************************************************************)
EXTENDS Integers, Sequences, FiniteSets, TLC

VARIABLES
    sub,             \* the Subscription under consideration
    validated,       \* Result<&Subscription, SocketError> of validate, or None
    exchange_sub,    \* ExchangeSub {channel, market} built from sub at setup, or None
    subscription_id, \* SubscriptionId built from sub at setup time ("" before)
    wire,            \* the inbound frame being handled, or None
    decoded,         \* Result<BinanceCandle, Error> of decoding wire, or None
    market_iter,     \* MarketIter<Candle> produced from decoded, or None
    now,             \* the last reading of the local clock (Utc::now())
    pairs,           \* the (SubscriptionId, Instrument) pairs a Map is collected from
    instrument_map,  \* the Map<Instrument> built from pairs, or None
    query,           \* the SubscriptionId last looked up in instrument_map
    found,           \* Result of the last find / find_mut, or None
    batch,           \* per connection group: the Subscriptions of its subscribe-batch
    gstate,          \* per group: Building, Connecting, Streaming, Closed or Failed
    gmap,            \* per group: the Map<Instrument> of its SubscriptionMeta, or None
    socket,          \* per group: the transport connection: none, open or closed
    sent,            \* per group: the subscribe payloads sent over the connection
    inbound,         \* per group: the frames received so far, in arrival order
    output,          \* per group: the MarketEvents delivered to the consumer, in order
    reported,        \* per group: the per-message errors reported so far, in order
    ended,           \* per group: whether the consumer was given the end of stream
    initialised,     \* whether init() has returned the Streams registry
    streams,         \* the groups whose output receiver is still held by the registry
    handles,         \* the groups whose output receiver select() gave to the consumer
    granted,         \* per group: how many select() calls returned its receiver
    select_result,   \* Result of the last select(): Ok(group), Err(group), or None
    joined,          \* whether join() was called
    forwarding,      \* the groups whose output join() forwards into the joined channel
    read,            \* per group: how many events were taken out of its output channel
    merged,          \* the events sent into the joined channel so far, in order
    pulled           \* how many events the consumer has received from the joined channel

vvars == <<sub, validated>>
cvars == <<exchange_sub, subscription_id, wire, decoded, market_iter, now>>
mvars == <<pairs, instrument_map, query, found>>
svars == <<batch, gstate, gmap, socket, sent, inbound, output, reported, ended>>
rvars == <<initialised, streams, handles, granted, select_result, joined, forwarding,
           read, merged, pulled>>
vars == <<vvars, cvars, mvars, svars, rvars>>

\* what the steps of one component leave alone
notValidate == <<cvars, mvars, svars, rvars>>
notCandle == <<vvars, mvars, svars, rvars>>
notMap == <<vvars, cvars, svars, rvars>>
notStreams == <<vvars, cvars, mvars, rvars>>
notRegistry == <<vvars, cvars, mvars>>

None == [tag |-> "None"]
Ok(v) == [tag |-> "Ok", value |-> v]
Err(e) == [tag |-> "Err", error |-> e]

---------------------------------------------------------------------------
(* Canonical data model                                                    *)

\* barter_integration::model::InstrumentKind as matched at mod.rs:167-169
InstrumentKinds == {"Spot", "FuturePerpetual"}

\* InstrumentKind's Display, used by `other.to_string()`
InstrumentKindToString(k) ==
    CASE k = "Spot" -> "spot"
      [] k = "FuturePerpetual" -> "future_perpetual"

Bases == {"bnb", "eth"}
Quotes == {"btc", "usdt"}

Instruments == [base : Bases, quote : Quotes, kind : InstrumentKinds]

\* enum Interval, in declaration order
IntervalSeq ==
    << "Minute1", "Minute3", "Minute5", "Minute15", "Minute30",
       "Hour1", "Hour2", "Hour4", "Hour6", "Hour8", "Hour12",
       "Day1", "Day3", "Week1", "Month1", "Month3" >>

Interval == { IntervalSeq[n] : n \in DOMAIN IntervalSeq }

\* struct Candles(pub Interval)
Candles(i) == [kind |-> "Candles", interval |-> i]

SubKinds == { Candles(i) : i \in Interval }

\* The exchange tags of the subscription tests and of the Binance channel
ExchangeIds == {"BinanceSpot", "BinanceFuturesUsd", "Coinbase", "Okx"}

\* StreamSelector::ID of an exchange tag
ExchangeID(exchange) == exchange

supports_spot(id) == id # "BinanceFuturesUsd"

supports_futures(id) == id \in {"BinanceFuturesUsd", "Okx"}

as_str(id) ==
    CASE id = "BinanceSpot" -> "binance_spot"
      [] id = "BinanceFuturesUsd" -> "binance_futures_usd"
      [] id = "Coinbase" -> "coinbase"
      [] id = "Okx" -> "okx"

\* struct Subscription<Exchange, Kind>
Subscription == [exchange : ExchangeIds, instrument : Instruments, kind : SubKinds]

\* SocketError::Unsupported { entity, item }
Unsupported(entity, item) == [error |-> "Unsupported", entity |-> entity, item |-> item]

---------------------------------------------------------------------------
(* Subscription & Validator                                                *)

validate_always_ok(s) == Ok(s)

validate_swapped_fields(s) ==
    LET exchange == ExchangeID(s.exchange)
        other == s.instrument.kind
    IN  IF other = "Spot" /\ supports_spot(exchange) THEN Ok(s)
        ELSE IF other = "FuturePerpetual" /\ supports_futures(exchange) THEN Ok(s)
        ELSE Err(Unsupported(InstrumentKindToString(other), as_str(exchange)))

\* impl Validator for &Subscription<Exchange, Kind>
validate(s) ==
    LET exchange == ExchangeID(s.exchange)
        other == s.instrument.kind
    IN  IF other = "Spot" /\ supports_spot(exchange) THEN Ok(s)
        ELSE IF other = "FuturePerpetual" /\ supports_futures(exchange) THEN Ok(s)
        ELSE Err(Unsupported(as_str(exchange), InstrumentKindToString(other)))

CandleIdle ==
    /\ exchange_sub = None
    /\ subscription_id = ""
    /\ wire = None
    /\ decoded = None
    /\ market_iter = None
    /\ now = None

\* the connection groups of the model
Groups == {1, 2}

StreamsIdle ==
    /\ batch = [g \in Groups |-> << >>]
    /\ gstate = [g \in Groups |-> "Building"]
    /\ gmap = [g \in Groups |-> None]
    /\ socket = [g \in Groups |-> "none"]
    /\ sent = [g \in Groups |-> << >>]
    /\ inbound = [g \in Groups |-> << >>]
    /\ output = [g \in Groups |-> << >>]
    /\ reported = [g \in Groups |-> << >>]
    /\ ended = [g \in Groups |-> FALSE]

\* no Streams registry: init() has not returned
RegistryIdle ==
    /\ initialised = FALSE
    /\ streams = {}
    /\ handles = {}
    /\ granted = [g \in Groups |-> 0]
    /\ select_result = None
    /\ joined = FALSE
    /\ forwarding = {}
    /\ read = [g \in Groups |-> 0]
    /\ merged = << >>
    /\ pulled = 0

MapIdle ==
    /\ pairs = << >>
    /\ instrument_map = None
    /\ query = ""
    /\ found = None

InitValidate ==
    /\ sub \in Subscription
    /\ validated = None
    /\ CandleIdle
    /\ MapIdle
    /\ StreamsIdle
    /\ RegistryIdle

\* a caller runs `subscription.validate()`
Validate ==
    /\ validated = None
    /\ validated' = validate(sub)
    /\ UNCHANGED <<sub, notValidate>>

\* the caller drops the result and is handed another Subscription
NextSubscription ==
    /\ validated # None
    /\ sub' \in Subscription
    /\ validated' = None
    /\ UNCHANGED notValidate

NextValidate == Validate \/ NextSubscription

SpecValidate == InitValidate /\ [][NextValidate]_vars

\* C1: validate succeeds exactly when the exchange supports the subscription's
\* instrument class (Spot needs supports_spot, FuturePerpetual needs
\* supports_futures), and on success it returns the input subscription with the
\* same exchange, instrument and kind.
C1_ValidateIffSupported ==
    validated # None =>
        /\ validated.tag = "Ok" <=>
                \/ sub.instrument.kind = "Spot" /\ supports_spot(ExchangeID(sub.exchange))
                \/ sub.instrument.kind = "FuturePerpetual"
                        /\ supports_futures(ExchangeID(sub.exchange))
        /\ validated.tag = "Ok" =>
                /\ validated.value.exchange = sub.exchange
                /\ validated.value.instrument = sub.instrument
                /\ validated.value.kind = sub.kind

C1_Witness ==
    /\ validated # None
    /\ validated.tag = "Ok"
    /\ sub.instrument.kind = "FuturePerpetual"
    /\ sub.exchange = "Okx"

\* C2: a failed validate returns Unsupported{entity, item} with entity the name of
\* the subscription's own exchange and item the string of its own instrument
\* class, never another error, and the validate step changes nothing but the
\* returned result.
C2_UnsupportedNamesExchangeAndKind ==
    /\ [](validated # None /\ validated.tag = "Err" =>
            validated.error =
                [error |-> "Unsupported",
                 entity |-> as_str(ExchangeID(sub.exchange)),
                 item |-> InstrumentKindToString(sub.instrument.kind)])
    /\ [][validated = None /\ validated' # None => UNCHANGED <<sub, cvars, mvars, svars, rvars>>]_vars

C2_Witness ==
    /\ validated # None
    /\ validated.tag = "Err"
    /\ sub.exchange = "Coinbase"
    /\ sub.instrument.kind = "FuturePerpetual"

---------------------------------------------------------------------------
(* Channel / identifier mapper (Binance)                                   *)

IntervalDisplay_week_as_7d(i) ==
    CASE i = "Minute1" -> "1m"
      [] i = "Minute3" -> "3m"
      [] i = "Minute5" -> "5m"
      [] i = "Minute15" -> "15m"
      [] i = "Minute30" -> "30m"
      [] i = "Hour1" -> "1h"
      [] i = "Hour2" -> "2h"
      [] i = "Hour4" -> "4h"
      [] i = "Hour6" -> "6h"
      [] i = "Hour8" -> "8h"
      [] i = "Hour12" -> "12h"
      [] i = "Day1" -> "1d"
      [] i = "Day3" -> "3d"
      [] i = "Week1" -> "7d"
      [] i = "Month1" -> "1M"
      [] i = "Month3" -> "3M"

\* impl Display for Interval
IntervalDisplay(i) ==
    CASE i = "Minute1" -> "1m"
      [] i = "Minute3" -> "3m"
      [] i = "Minute5" -> "5m"
      [] i = "Minute15" -> "15m"
      [] i = "Minute30" -> "30m"
      [] i = "Hour1" -> "1h"
      [] i = "Hour2" -> "2h"
      [] i = "Hour4" -> "4h"
      [] i = "Hour6" -> "6h"
      [] i = "Hour8" -> "8h"
      [] i = "Hour12" -> "12h"
      [] i = "Day1" -> "1d"
      [] i = "Day3" -> "3d"
      [] i = "Week1" -> "1w"
      [] i = "Month1" -> "1M"
      [] i = "Month3" -> "3M"

\* #[serde(alias = ...)] of each Interval variant
IntervalAlias(i) ==
    CASE i = "Minute1" -> "1m"
      [] i = "Minute3" -> "3m"
      [] i = "Minute5" -> "5m"
      [] i = "Minute15" -> "15m"
      [] i = "Minute30" -> "30m"
      [] i = "Hour1" -> "1h"
      [] i = "Hour2" -> "2h"
      [] i = "Hour4" -> "4h"
      [] i = "Hour6" -> "6h"
      [] i = "Hour8" -> "8h"
      [] i = "Hour12" -> "12h"
      [] i = "Day1" -> "1d"
      [] i = "Day3" -> "3d"
      [] i = "Week1" -> "1w"
      [] i = "Month1" -> "1M"
      [] i = "Month3" -> "3M"

\* #[derive(Deserialize)] for Interval: a string is accepted when it is the name
\* of a variant or its alias
IntervalDeserialize(str) ==
    IF \E i \in Interval : str = i \/ str = IntervalAlias(i)
    THEN Ok(CHOOSE i \in Interval : str = i \/ str = IntervalAlias(i))
    ELSE Err([error |-> "Deserialise", item |-> str])

\* BinanceChannel::CANDLES
CANDLES == "@kline_"

BinanceCandlesChannel_month_as_minute(s) ==
    CASE s.kind.interval = "Minute1" -> "@kline_1m"
      [] s.kind.interval = "Minute3" -> "@kline_3m"
      [] s.kind.interval = "Minute5" -> "@kline_5m"
      [] s.kind.interval = "Minute15" -> "@kline_15m"
      [] s.kind.interval = "Minute30" -> "@kline_30m"
      [] s.kind.interval = "Hour1" -> "@kline_1h"
      [] s.kind.interval = "Hour2" -> "@kline_2h"
      [] s.kind.interval = "Hour4" -> "@kline_4h"
      [] s.kind.interval = "Hour6" -> "@kline_6h"
      [] s.kind.interval = "Hour8" -> "@kline_8h"
      [] s.kind.interval = "Hour12" -> "@kline_12h"
      [] s.kind.interval = "Day1" -> "@kline_1d"
      [] s.kind.interval = "Day3" -> "@kline_3d"
      [] s.kind.interval = "Week1" -> "@kline_1w"
      [] s.kind.interval = "Month1" -> "@kline_1m"
      [] s.kind.interval = "Month3" -> "@kline_3m"

\* impl Identifier<BinanceChannel> for Subscription<Binance<Server>, Candles>
BinanceCandlesChannel(s) ==
    CASE s.kind.interval = "Minute1" -> "@kline_1m"
      [] s.kind.interval = "Minute3" -> "@kline_3m"
      [] s.kind.interval = "Minute5" -> "@kline_5m"
      [] s.kind.interval = "Minute15" -> "@kline_15m"
      [] s.kind.interval = "Minute30" -> "@kline_30m"
      [] s.kind.interval = "Hour1" -> "@kline_1h"
      [] s.kind.interval = "Hour2" -> "@kline_2h"
      [] s.kind.interval = "Hour4" -> "@kline_4h"
      [] s.kind.interval = "Hour6" -> "@kline_6h"
      [] s.kind.interval = "Hour8" -> "@kline_8h"
      [] s.kind.interval = "Hour12" -> "@kline_12h"
      [] s.kind.interval = "Day1" -> "@kline_1d"
      [] s.kind.interval = "Day3" -> "@kline_3d"
      [] s.kind.interval = "Week1" -> "@kline_1w"
      [] s.kind.interval = "Month1" -> "@kline_1M"
      [] s.kind.interval = "Month3" -> "@kline_3M"

\* BinanceChannel::TRADES
TRADES == "@trade"

\* SubKind PublicTrades
PublicTrades == [kind |-> "PublicTrades"]

\* impl Identifier<BinanceChannel> for Subscription<Binance<Server>, PublicTrades>
BinanceTradesChannel(s) == TRADES

\* Identifier<BinanceChannel>::id of a Subscription, by its SubKind
BinanceChannelOf(s) ==
    IF s.kind.kind = "Candles" THEN BinanceCandlesChannel(s) ELSE BinanceTradesChannel(s)

\* str::to_uppercase on the symbols of the model
to_uppercase(sym) ==
    CASE sym = "btc" -> "BTC"
      [] sym = "bnb" -> "BNB"
      [] sym = "eth" -> "ETH"
      [] sym = "usdt" -> "USDT"

\* Binance's market of a Subscription: base and quote joined, in upper case
\* (eg/ "BTCUSDT", "BNBBTC")
BinanceMarket(s) == to_uppercase(s.instrument.base) \o to_uppercase(s.instrument.quote)

\* ExchangeSub { channel, market }
ExchangeSub(channel, market) == [channel |-> channel, market |-> market]

\* ExchangeSub::id: "<channel>|<market>" (eg/ "@trade|BTCUSDT")
ExchangeSubId(es) == es.channel \o "|" \o es.market

---------------------------------------------------------------------------
(* Wire message transformer (Binance kline)                                *)

\* DateTime<Utc> of an epoch-milliseconds count
datetime_utc_from_epoch_ms(ms) == [secs |-> ms \div 1000, millis |-> ms % 1000]

\* barter_integration::de::de_str::<f64> on the decimal strings of the model; the
\* f64 is held in units of 0.0001
ParsesAsF64(str) ==
    str \in {"0.0005", "0.0010", "0.0015", "0.0020", "0.0025", "0.0030", "500", "1000"}

ParseF64(str) ==
    CASE str = "0.0005" -> 5
      [] str = "0.0010" -> 10
      [] str = "0.0015" -> 15
      [] str = "0.0020" -> 20
      [] str = "0.0025" -> 25
      [] str = "0.0030" -> 30
      [] str = "500" -> 5000000
      [] str = "1000" -> 10000000

\* the kline payloads on the wire: the one of the decoder's test, one with every
\* number different, and one whose open price is no decimal string
KlinePayloads ==
    { [E |-> 123456789, t |-> 123400000, T |-> 123460000,
       o |-> "0.0010", c |-> "0.0020", h |-> "0.0025", l |-> "0.0015",
       v |-> "1000", n |-> 100],
      [E |-> 123516789, t |-> 123460000, T |-> 123520000,
       o |-> "0.0020", c |-> "0.0015", h |-> "0.0030", l |-> "0.0005",
       v |-> "500", n |-> 42],
      [E |-> 123456789, t |-> 123400000, T |-> 123460000,
       o |-> "open", c |-> "0.0020", h |-> "0.0025", l |-> "0.0015",
       v |-> "1000", n |-> 100] }

WireSymbols == { to_uppercase(b) \o to_uppercase(q) : b \in Bases, q \in Quotes }

WireIntervals == { IntervalDisplay(i) : i \in Interval }

\* {"e":"kline","E":..,"s":..,"k":{"t":..,"T":..,"s":..,"i":..,"o":..,...}}
KlineFrame(s, i, p) ==
    [e |-> "kline", E |-> p.E, s |-> s,
     k |-> [t |-> p.t, T |-> p.T, s |-> s, i |-> i, o |-> p.o, c |-> p.c,
            h |-> p.h, l |-> p.l, v |-> p.v, n |-> p.n]]

\* a frame that is no kline message: the exchange's reply to a subscribe request
SubscribeReply == [result |-> "null", id |-> 1]

Frames ==
    { KlineFrame(s, i, p) : s \in WireSymbols, i \in WireIntervals, p \in KlinePayloads }
        \cup {SubscribeReply}

\* de_trade_subscription_id: the "s" field as the SubscriptionId
de_trade_subscription_id(frame) == ExchangeSubId(ExchangeSub(CANDLES, frame.s))

\* serde_json::from_str::<BinanceCandle>
DecodeBinanceCandle(frame) ==
    IF  /\ {"s", "E", "k"} \subseteq DOMAIN frame
        /\ {"t", "T", "i", "o", "c", "h", "l", "v", "n"} \subseteq DOMAIN frame.k
        /\ \A f \in {"o", "c", "h", "l", "v"} : ParsesAsF64(frame.k[f])
    THEN Ok([subscription_id |-> de_trade_subscription_id(frame),
             time |-> datetime_utc_from_epoch_ms(frame.E),
             candle |-> [start |-> datetime_utc_from_epoch_ms(frame.k.t),
                         end |-> datetime_utc_from_epoch_ms(frame.k.T),
                         interval |-> frame.k.i,
                         open |-> ParseF64(frame.k.o),
                         close |-> ParseF64(frame.k.c),
                         high |-> ParseF64(frame.k.h),
                         low |-> ParseF64(frame.k.l),
                         volume |-> ParseF64(frame.k.v),
                         trades |-> frame.k.n]])
    ELSE Err([error |-> "Deserialise"])

\* impl Identifier<Option<SubscriptionId>> for BinanceCandle
BinanceCandleId(candle) == candle.subscription_id

\* struct MarketIter<T>(pub Vec<Result<MarketEvent<T>, DataError>>)
MarketIter(events) == [tag |-> "MarketIter", events |-> events]

\* Exchange::from(ExchangeId)
ExchangeFrom(exchange_id) == as_str(exchange_id)

MarketIterFrom_start_as_close_time(exchange_id, instrument, trade, clock) ==
    MarketIter(<< Ok([exchange_time |-> trade.time,
           received_time |-> clock,
           exchange |-> ExchangeFrom(exchange_id),
           instrument |-> instrument,
           kind |-> [close_time |-> trade.candle.start,
                     open |-> trade.candle.open,
                     high |-> trade.candle.high,
                     low |-> trade.candle.low,
                     close |-> trade.candle.close,
                     volume |-> trade.candle.volume,
                     trade_count |-> trade.candle.trades]]) >>)

\* impl From<(ExchangeId, Instrument, BinanceCandle)> for MarketIter<Candle>;
\* clock is what Utc::now() returns
MarketIterFrom(exchange_id, instrument, trade, clock) ==
    MarketIter(<< Ok([exchange_time |-> trade.time,
           received_time |-> clock,
           exchange |-> ExchangeFrom(exchange_id),
           instrument |-> instrument,
           kind |-> [close_time |-> trade.candle.end,
                     open |-> trade.candle.open,
                     high |-> trade.candle.high,
                     low |-> trade.candle.low,
                     close |-> trade.candle.close,
                     volume |-> trade.candle.volume,
                     trade_count |-> trade.candle.trades]]) >>)

\* {"e":"trade","E":..,"s":..,"t":..,"p":..,"q":..,"T":..,"m":..}
TradeFrame(s, t) ==
    [e |-> "trade", E |-> 123456789, s |-> s, t |-> t, p |-> "0.0010", q |-> "1000",
     T |-> 123456700, m |-> FALSE]

\* serde_json::from_str::<BinanceTrade>: the "s" field as the SubscriptionId
\* "@trade|<s>"
DecodeBinanceTrade(frame) ==
    IF  /\ {"s", "T", "t", "p", "q", "m"} \subseteq DOMAIN frame
        /\ \A f \in {"p", "q"} : ParsesAsF64(frame[f])
    THEN Ok([subscription_id |-> ExchangeSubId(ExchangeSub(TRADES, frame.s)),
             time |-> datetime_utc_from_epoch_ms(frame.T),
             id |-> frame.t,
             price |-> ParseF64(frame.p),
             amount |-> ParseF64(frame.q),
             side |-> IF frame.m THEN "Sell" ELSE "Buy"])
    ELSE Err([error |-> "Deserialise"])

\* impl From<(ExchangeId, Instrument, BinanceTrade)> for MarketIter<PublicTrade>
TradeMarketIterFrom(exchange_id, instrument, trade, clock) ==
    MarketIter(<< Ok([exchange_time |-> trade.time,
           received_time |-> clock,
           exchange |-> ExchangeFrom(exchange_id),
           instrument |-> instrument,
           kind |-> [id |-> trade.id,
                     price |-> trade.price,
                     amount |-> trade.amount,
                     side |-> trade.side]]) >>)

\* the readings of the local clock: one equal to an exchange time, one later
ClockReadings == { datetime_utc_from_epoch_ms(123456789), datetime_utc_from_epoch_ms(123456999) }

\* Subscription<Binance<Server>, Candles>
BinanceCandleSubscription ==
    { s \in Subscription : s.exchange \in {"BinanceSpot", "BinanceFuturesUsd"} }

InitCandle ==
    /\ sub \in BinanceCandleSubscription
    /\ validated = None
    /\ CandleIdle
    /\ MapIdle
    /\ StreamsIdle
    /\ RegistryIdle

\* setup: ExchangeSub::new(&subscription) and its id()
Subscribe ==
    /\ exchange_sub = None
    /\ exchange_sub' = ExchangeSub(BinanceCandlesChannel(sub), BinanceMarket(sub))
    /\ subscription_id' = ExchangeSubId(exchange_sub')
    /\ UNCHANGED <<notCandle, wire, decoded, market_iter, now>>

\* a frame arrives on the connection
Receive ==
    /\ exchange_sub # None
    /\ wire = None
    /\ wire' \in Frames
    /\ UNCHANGED <<notCandle, exchange_sub, subscription_id, decoded, market_iter, now>>

\* the frame is deserialised as a BinanceCandle
Decode ==
    /\ wire # None
    /\ decoded = None
    /\ decoded' = DecodeBinanceCandle(wire)
    /\ UNCHANGED <<notCandle, exchange_sub, subscription_id, wire, market_iter, now>>

\* MarketIter::from((exchange_id, instrument, candle))
Transform ==
    /\ decoded # None
    /\ decoded.tag = "Ok"
    /\ market_iter = None
    /\ now' \in ClockReadings
    /\ market_iter' =
          MarketIterFrom(ExchangeID(sub.exchange), sub.instrument, decoded.value, now')
    /\ UNCHANGED <<notCandle, exchange_sub, subscription_id, wire, decoded>>

\* the frame is done with: its events were handed on or its error reported
Finish ==
    /\ decoded # None
    /\ decoded.tag = "Err" \/ market_iter # None
    /\ wire' = None
    /\ decoded' = None
    /\ market_iter' = None
    /\ now' = None
    /\ UNCHANGED <<notCandle, exchange_sub, subscription_id>>

NextCandle == Subscribe \/ Receive \/ Decode \/ Transform \/ Finish

SpecCandle == InitCandle /\ [][NextCandle]_vars

\* the frame on the wire is the kline message of the subscription sub
Corresponds(frame, s) ==
    /\ "k" \in DOMAIN frame
    /\ frame.s = BinanceMarket(s)
    /\ frame.k.i = IntervalDisplay(s.kind.interval)

\* C3: the SubscriptionId built from the Subscription at setup time equals the
\* SubscriptionId derived from the corresponding inbound kline message.
C3_SubscriptionIdRoundTrip ==
    (decoded # None /\ decoded.tag = "Ok" /\ Corresponds(wire, sub)) =>
        BinanceCandleId(decoded.value) = subscription_id

\* C4: decoding a kline message with symbol s and interval i yields the
\* subscription_id "@kline_<i>|<s>".
C4_DecodedIdIsIntervalSpecific ==
    (decoded # None /\ decoded.tag = "Ok") =>
        decoded.value.subscription_id = "@kline_" \o wire.k.i \o "|" \o wire.s

\* C5: the channel token of a Binance Candles subscription is defined for each of
\* the 16 Intervals and no other Interval yields the same token.
C5_ChannelTotalAndInjective ==
    exchange_sub # None =>
        /\ Cardinality(Interval) = 16
        /\ \A j \in Interval :
              BinanceCandlesChannel([sub EXCEPT !.kind = Candles(j)]) = exchange_sub.channel
                  <=> j = sub.kind.interval

C5_Witness ==
    /\ exchange_sub # None
    /\ sub.kind.interval = "Month1"
    /\ exchange_sub.channel = "@kline_1M"

\* C6: the canonical event takes each field from the wire field of the same
\* meaning: close_time from T, open/high/low/close/volume from o/h/l/c/v,
\* trade_count from n, exchange_time from E, received_time from the local clock,
\* and instrument and exchange from the ones passed in.
C6_TransformFieldByField ==
    market_iter # None =>
        /\ Len(market_iter.events) = 1
        /\ market_iter.events[1].tag = "Ok"
        /\ LET ev == market_iter.events[1].value
           IN  /\ ev.exchange_time = datetime_utc_from_epoch_ms(wire.E)
               /\ ev.received_time = now
               /\ ev.exchange = as_str(ExchangeID(sub.exchange))
               /\ ev.instrument = sub.instrument
               /\ ev.kind.close_time = datetime_utc_from_epoch_ms(wire.k.T)
               /\ ev.kind.open = ParseF64(wire.k.o)
               /\ ev.kind.high = ParseF64(wire.k.h)
               /\ ev.kind.low = ParseF64(wire.k.l)
               /\ ev.kind.close = ParseF64(wire.k.c)
               /\ ev.kind.volume = ParseF64(wire.k.v)
               /\ ev.kind.trade_count = wire.k.n

\* the decoder test's message, transformed while the clock differs from E
C6_Witness ==
    /\ market_iter # None
    /\ wire.s = "BNBBTC"
    /\ wire.k.i = "1m"
    /\ wire.E = 123456789
    /\ now = datetime_utc_from_epoch_ms(123456999)
    /\ market_iter.events[1].value.kind =
          [close_time |-> datetime_utc_from_epoch_ms(123460000),
           open |-> 10, high |-> 25, low |-> 15, close |-> 20,
           volume |-> 10000000, trade_count |-> 100]

\* C16: for each of the 16 Intervals the candle channel token is the prefix
\* CANDLES followed by the Interval's display string, that display string
\* deserialises to the same Interval, and so the token of the outbound
\* subscription ends in the interval field "i" of its inbound kline message.
C16_TokenIsPrefixPlusDisplay ==
    exchange_sub # None =>
        /\ Cardinality(Interval) = 16
        /\ exchange_sub.channel = CANDLES \o IntervalDisplay(sub.kind.interval)
        /\ \A j \in Interval :
              /\ BinanceCandlesChannel([sub EXCEPT !.kind = Candles(j)])
                    = CANDLES \o IntervalDisplay(j)
              /\ IntervalDeserialize(IntervalDisplay(j)) = Ok(j)
        /\ Corresponds(wire, sub) => exchange_sub.channel = CANDLES \o wire.k.i

\* a Week1 subscription whose kline message, interval field "1w", has arrived
C16_Witness ==
    /\ exchange_sub # None
    /\ sub.kind.interval = "Week1"
    /\ Corresponds(wire, sub)
    /\ wire.k.i = "1w"
    /\ exchange_sub.channel = "@kline_1w"
    /\ IntervalDeserialize("1w") = Ok("Week1")

---------------------------------------------------------------------------
(* Map<T>: SubscriptionId -> Instrument                                    *)

MaxPairs == 2

\* the SubscriptionIds of the Map's test and one of a Binance candle channel
SubscriptionIds == {"present", "not present", "@kline_1m|BNBBTC"}

\* SocketError::Unidentifiable(SubscriptionId)
Unidentifiable(id) == [error |-> "Unidentifiable", id |-> id]

\* struct Map<T>(pub HashMap<SubscriptionId, T>)
Map(entries) == [tag |-> "Map", entries |-> entries]

\* HashMap::insert: a later value replaces the one stored under the same key
HashMapInsert(m, k, v) == [x \in DOMAIN m \cup {k} |-> IF x = k THEN v ELSE m[x]]

\* Iterator::collect::<HashMap<_, _>>: the pairs are inserted in order
RECURSIVE CollectHashMap(_)
CollectHashMap(items) ==
    IF items = << >> THEN << >>
    ELSE LET n == Len(items)
         IN  HashMapInsert(CollectHashMap(SubSeq(items, 1, n - 1)), items[n][1], items[n][2])

\* impl FromIterator<(SubscriptionId, T)> for Map<T>
from_iter(iter) == Map(CollectHashMap(iter))

find_or_default(map, id) ==
    IF id \in DOMAIN map.entries THEN Ok(map.entries[id])
    ELSE Ok([base |-> "", quote |-> "", kind |-> "Spot"])

\* Map::find
find(map, id) ==
    IF id \in DOMAIN map.entries THEN Ok(map.entries[id])
    ELSE Err(Unidentifiable(id))

\* Map::find_mut: the &mut T is held as the key it points into
find_mut(map, id) ==
    IF id \in DOMAIN map.entries THEN Ok([ref |-> id])
    ELSE Err(Unidentifiable(id))

PairLists ==
    UNION { [1..n -> SubscriptionIds \X Instruments] : n \in 0..MaxPairs }

InitMap ==
    /\ sub \in {[exchange |-> "BinanceSpot",
                 instrument |-> [base |-> "bnb", quote |-> "btc", kind |-> "Spot"],
                 kind |-> Candles("Minute1")]}
    /\ validated = None
    /\ CandleIdle
    /\ pairs \in PairLists
    /\ instrument_map = None
    /\ query = ""
    /\ found = None
    /\ StreamsIdle
    /\ RegistryIdle

\* the pairs are collected into the Map
FromIter ==
    /\ instrument_map = None
    /\ instrument_map' = from_iter(pairs)
    /\ UNCHANGED <<notMap, pairs, query, found>>

\* map.find(&id)
Find ==
    /\ instrument_map # None
    /\ \E id \in SubscriptionIds :
          /\ query' = id
          /\ found' = find(instrument_map, id)
    /\ UNCHANGED <<notMap, pairs, instrument_map>>

\* map.find_mut(&id)
FindMut ==
    /\ instrument_map # None
    /\ \E id \in SubscriptionIds :
          /\ query' = id
          /\ found' = find_mut(instrument_map, id)
    /\ UNCHANGED <<notMap, pairs, instrument_map>>

NextMap == FromIter \/ Find \/ FindMut

SpecMap == InitMap /\ [][NextMap]_vars

\* the result found is one of find, not of find_mut
IsFindResult == found # None /\ (found.tag = "Ok" => "ref" \notin DOMAIN found.value)

\* the Instrument the pairs store under id: the one of the last pair with that id
StoredUnder(id) ==
    LET at == { n \in 1..Len(pairs) : pairs[n][1] = id }
    IN  pairs[CHOOSE n \in at : \A m \in at : m <= n][2]

\* C7: Map.find(id) returns the Instrument stored under id when the map was built
\* if id is a key, fails with Unidentifiable(id) otherwise, and leaves the map as
\* it was.
C7_FindReturnsStoredOrUnidentifiable ==
    /\ [](IsFindResult =>
            IF \E n \in 1..Len(pairs) : pairs[n][1] = query
            THEN found = Ok(StoredUnder(query))
            ELSE found = Err(Unidentifiable(query)))
    /\ [][instrument_map # None => instrument_map' = instrument_map]_vars

C7_Witness ==
    /\ IsFindResult
    /\ found.tag = "Ok"
    /\ query = "present"
    /\ Len(pairs) = 2
    /\ pairs[2][1] = "not present"

\* C8: a Map built from pairs of which two carry the same SubscriptionId never
\* holds fewer entries than the pairs it was built from (the duplicate is an
\* error, not silently merged).
C8_NoEntrySilentlyLost ==
    instrument_map # None => Cardinality(DOMAIN instrument_map.entries) = Len(pairs)

---------------------------------------------------------------------------
(* Connection group: one subscribe-batch, one transport connection         *)

MaxFrames == 2

\* the exchange a group's batch subscribes to: `.subscribe([(Exchange, ...)])`
GroupExchange(g) == IF g = 1 THEN "BinanceSpot" ELSE "BinanceFuturesUsd"

\* the instrument class the exchange serves, and the one it does not
ServedKind(exchange) == IF supports_spot(ExchangeID(exchange)) THEN "Spot" ELSE "FuturePerpetual"
UnservedKind(exchange) == IF supports_spot(ExchangeID(exchange)) THEN "FuturePerpetual" ELSE "Spot"

SubBnbBtc1m(x) ==
    [exchange |-> x,
     instrument |-> [base |-> "bnb", quote |-> "btc", kind |-> ServedKind(x)],
     kind |-> Candles("Minute1")]

SubEthUsdt1M(x) ==
    [exchange |-> x,
     instrument |-> [base |-> "eth", quote |-> "usdt", kind |-> ServedKind(x)],
     kind |-> Candles("Month1")]

SubUnserved(x) ==
    [exchange |-> x,
     instrument |-> [base |-> "eth", quote |-> "usdt", kind |-> UnservedKind(x)],
     kind |-> Candles("Minute1")]

\* the subscribe-batches of the configuration: all served, one unserved entry
\* last or first, and the same subscription twice
Batches(x) ==
    { << SubBnbBtc1m(x) >>,
      << SubBnbBtc1m(x), SubEthUsdt1M(x) >>,
      << SubBnbBtc1m(x), SubUnserved(x) >>,
      << SubUnserved(x), SubBnbBtc1m(x) >>,
      << SubBnbBtc1m(x), SubBnbBtc1m(x) >> }

\* the frames a connection delivers: the kline message of each served
\* subscription, a kline message that does not deserialise, and a non-kline reply
StreamFrames ==
    { KlineFrame("BNBBTC", "1m",
          [E |-> 123456789, t |-> 123400000, T |-> 123460000,
           o |-> "0.0010", c |-> "0.0020", h |-> "0.0025", l |-> "0.0015",
           v |-> "1000", n |-> 100]),
      KlineFrame("ETHUSDT", "1M",
          [E |-> 123516789, t |-> 123460000, T |-> 123520000,
           o |-> "0.0020", c |-> "0.0015", h |-> "0.0030", l |-> "0.0005",
           v |-> "500", n |-> 42]),
      KlineFrame("BNBBTC", "1m",
          [E |-> 123456789, t |-> 123400000, T |-> 123460000,
           o |-> "open", c |-> "0.0020", h |-> "0.0025", l |-> "0.0015",
           v |-> "1000", n |-> 100]),
      SubscribeReply }

SubTradesBnbBtc(x) ==
    [exchange |-> x,
     instrument |-> [base |-> "bnb", quote |-> "btc", kind |-> ServedKind(x)],
     kind |-> PublicTrades]

\* the frames a trades connection delivers: two trade messages of the subscribed
\* market and a reply that is no trade message
TradeFrames ==
    { TradeFrame("BNBBTC", 1000000000), TradeFrame("BNBBTC", 1000000001), SubscribeReply }

\* validation of a batch: every Subscription validates
BatchValidates(subs) == \A n \in 1..Len(subs) : validate(subs[n]).tag = "Ok"

\* the first validation error of a batch that does not validate
BatchError(subs) ==
    validate(subs[CHOOSE n \in 1..Len(subs) :
                    /\ validate(subs[n]).tag = "Err"
                    /\ \A m \in 1..(n - 1) : validate(subs[m]).tag = "Ok"]).error

\* SubscriptionMeta.instrument_map: each Subscription's ExchangeSub id -> Instrument
InstrumentMapOf(subs) ==
    from_iter([n \in 1..Len(subs) |->
        << ExchangeSubId(ExchangeSub(BinanceChannelOf(subs[n]), BinanceMarket(subs[n]))),
           subs[n].instrument >>])

\* SubscriptionMeta.subscriptions: the subscribe payload naming each ExchangeSub
SubscribePayloads(subs) ==
    << [method |-> "SUBSCRIBE",
        params |-> [n \in 1..Len(subs) |->
                      ExchangeSub(BinanceChannelOf(subs[n]), BinanceMarket(subs[n]))]] >>

\* the transformer on one decoded frame: resolve its id, then transform
TransformFrame(map, exchange_id, frame, clock) ==
    LET d == DecodeBinanceCandle(frame)
    IN  IF d.tag = "Err" THEN [events |-> << >>, errors |-> << d.error >>]
        ELSE LET r == find(map, BinanceCandleId(d.value))
             IN  IF r.tag = "Err" THEN [events |-> << >>, errors |-> << r.error >>]
                 ELSE LET iter == MarketIterFrom(exchange_id, r.value, d.value, clock).events
                      IN  [events |-> [n \in 1..Len(iter) |-> iter[n].value],
                           errors |-> << >>]

\* the transformer of a Streams<PublicTrades> on one frame
TransformTradeFrame(map, exchange_id, frame, clock) ==
    LET d == DecodeBinanceTrade(frame)
    IN  IF d.tag = "Err" THEN [events |-> << >>, errors |-> << d.error >>]
        ELSE LET r == find(map, d.value.subscription_id)
             IN  IF r.tag = "Err" THEN [events |-> << >>, errors |-> << r.error >>]
                 ELSE LET iter == TradeMarketIterFrom(exchange_id, r.value, d.value, clock).events
                      IN  [events |-> [n \in 1..Len(iter) |-> iter[n].value],
                           errors |-> << >>]

\* the SubKind of the Streams a batch belongs to
KindOf(subs) == subs[1].kind.kind

\* the transformer of a batch's connection, by the SubKind of its Streams
TransformOf(subs, map, exchange_id, frame, clock) ==
    IF KindOf(subs) = "Candles"
    THEN TransformFrame(map, exchange_id, frame, clock)
    ELSE TransformTradeFrame(map, exchange_id, frame, clock)

\* the frames the connection of a batch delivers: the spot connection every
\* frame of its SubKind, the futures connection one message of its subscription
FramesOf(subs) ==
    CASE KindOf(subs) = "Candles" /\ subs[1].exchange = "BinanceSpot" -> StreamFrames
      [] KindOf(subs) = "Candles" /\ subs[1].exchange # "BinanceSpot" ->
            { KlineFrame("BNBBTC", "1m",
                  [E |-> 123456789, t |-> 123400000, T |-> 123460000,
                   o |-> "0.0010", c |-> "0.0020", h |-> "0.0025", l |-> "0.0015",
                   v |-> "1000", n |-> 100]) }
      [] KindOf(subs) # "Candles" /\ subs[1].exchange = "BinanceSpot" -> TradeFrames
      [] OTHER -> { TradeFrame("BNBBTC", 1000000002) }

send_front(channel, events) == events \o channel

\* the group's sender: each event is appended to the group's output channel
send(channel, events) == channel \o events

InitStreams ==
    /\ sub \in {[exchange |-> "BinanceSpot",
                 instrument |-> [base |-> "bnb", quote |-> "btc", kind |-> "Spot"],
                 kind |-> Candles("Minute1")]}
    /\ validated = None
    /\ CandleIdle
    /\ MapIdle
    /\ batch \in { b \in [Groups -> UNION { Batches(GroupExchange(g)) : g \in Groups }] :
                     \A g \in Groups : b[g] \in Batches(GroupExchange(g)) }
    /\ gstate = [g \in Groups |-> "Building"]
    /\ gmap = [g \in Groups |-> None]
    /\ socket = [g \in Groups |-> "none"]
    /\ sent = [g \in Groups |-> << >>]
    /\ inbound = [g \in Groups |-> << >>]
    /\ output = [g \in Groups |-> << >>]
    /\ reported = [g \in Groups |-> << >>]
    /\ ended = [g \in Groups |-> FALSE]
    /\ RegistryIdle

\* Building -> Connecting: the whole batch validated, its SubscriptionMeta is built
BuildOk(g) ==
    /\ gstate[g] = "Building"
    /\ BatchValidates(batch[g])
    /\ gmap' = [gmap EXCEPT ![g] = InstrumentMapOf(batch[g])]
    /\ gstate' = [gstate EXCEPT ![g] = "Connecting"]
    /\ UNCHANGED <<notStreams, batch, socket, sent, inbound, output, reported, ended>>

\* Building -> Failed: a Subscription of the batch does not validate
BuildFail(g) ==
    /\ gstate[g] = "Building"
    /\ ~BatchValidates(batch[g])
    /\ gstate' = [gstate EXCEPT ![g] = "Failed"]
    /\ reported' = [reported EXCEPT ![g] = Append(@, BatchError(batch[g]))]
    /\ UNCHANGED <<notStreams, batch, gmap, socket, sent, inbound, output, ended>>

\* Connecting -> Streaming: the transport opens and the subscribe payloads are sent
Connect(g) ==
    /\ gstate[g] = "Connecting"
    /\ socket' = [socket EXCEPT ![g] = "open"]
    /\ sent' = [sent EXCEPT ![g] = SubscribePayloads(batch[g])]
    /\ gstate' = [gstate EXCEPT ![g] = "Streaming"]
    /\ UNCHANGED <<notStreams, batch, gmap, inbound, output, reported, ended>>

\* Connecting -> Closed: open(url) returns a TransportError
ConnectError(g) ==
    /\ gstate[g] = "Connecting"
    /\ gstate' = [gstate EXCEPT ![g] = "Closed"]
    /\ ended' = [ended EXCEPT ![g] = TRUE]
    /\ UNCHANGED <<notStreams, batch, gmap, socket, sent, inbound, output, reported>>

\* how many frames a connection delivers at most: the futures connection one more
\* than the spot connection
FrameLimit(g) == IF g = 1 THEN MaxFrames ELSE MaxFrames + 1

\* the reading of the local clock when a frame of a connection is transformed
ArrivalClock == { datetime_utc_from_epoch_ms(123456999) }

\* the bound the merge buffer is said to have
MergeBound == 2

may_send_below_bound(pending) == pending < MergeBound

\* whether a send into an output channel proceeds at once: an unbounded channel
\* accepts a send whatever the number of pending events
may_send(pending) == TRUE

\* the events of the group's output channel that nobody has taken out yet
Backlog(g) == Len(output[g]) - read[g]

\* Streaming: one inbound frame is decoded, resolved and transformed; its events
\* are delivered, its error is reported
HandleFrame(g) ==
    /\ gstate[g] = "Streaming"
    /\ Len(inbound[g]) < FrameLimit(g)
    /\ may_send(Backlog(g))
    /\ \E frame \in FramesOf(batch[g]), clock \in ArrivalClock :
          LET t == TransformOf(batch[g], gmap[g], ExchangeID(GroupExchange(g)), frame, clock)
          IN  /\ inbound' = [inbound EXCEPT ![g] = Append(@, frame)]
              /\ output' = [output EXCEPT ![g] = send(@, t.events)]
              /\ reported' = [reported EXCEPT ![g] = @ \o t.errors]
    /\ UNCHANGED <<notStreams, batch, gstate, gmap, socket, sent, ended>>

\* Streaming -> Closed: the transport reports an error or its close
TransportClosed(g) ==
    /\ gstate[g] = "Streaming"
    /\ gstate' = [gstate EXCEPT ![g] = "Closed"]
    /\ socket' = [socket EXCEPT ![g] = "closed"]
    /\ ended' = [ended EXCEPT ![g] = TRUE]
    /\ UNCHANGED <<notStreams, batch, gmap, sent, inbound, output, reported>>

NextStreams ==
    \/ \E g \in Groups : BuildOk(g)
    \/ \E g \in Groups : BuildFail(g)
    \/ \E g \in Groups : Connect(g)
    \/ \E g \in Groups : ConnectError(g)
    \/ \E g \in Groups : HandleFrame(g)
    \/ \E g \in Groups : TransportClosed(g)

SpecStreams == InitStreams /\ [][NextStreams]_vars

\* the exchange serves the instrument class of the subscription
Served(s) ==
    \/ s.instrument.kind = "Spot" /\ supports_spot(ExchangeID(s.exchange))
    \/ s.instrument.kind = "FuturePerpetual" /\ supports_futures(ExchangeID(s.exchange))

\* C9: a group leaves Building for Connecting only when every Subscription of its
\* batch validates; a batch with a subscription that does not validate never has
\* a connection opened or a subscribe payload sent.
C9_AllOrNothingPerBatch ==
    \A g \in Groups :
        /\ gstate[g] \in {"Connecting", "Streaming", "Closed"} =>
              \A n \in 1..Len(batch[g]) : Served(batch[g][n])
        /\ (\E n \in 1..Len(batch[g]) : ~Served(batch[g][n])) =>
              /\ gstate[g] \in {"Building", "Failed"}
              /\ socket[g] = "none"
              /\ sent[g] = << >>
              /\ gmap[g] = None

\* a batch whose first entry validates and whose second does not has failed,
\* beside a group that streams
C9_Witness ==
    /\ gstate[1] = "Failed"
    /\ Len(batch[1]) = 2
    /\ Served(batch[1][1])
    /\ ~Served(batch[1][2])
    /\ socket[1] = "none"
    /\ reported[1] = << [error |-> "Unsupported", entity |-> "binance_spot",
                         item |-> "future_perpetual"] >>
    /\ gstate[2] = "Streaming"
    /\ socket[2] = "open"

\* the frame is a kline message that deserialises and belongs to a Subscription
\* of the batch
IsMessageOf(frame, subs) ==
    /\ DecodeBinanceCandle(frame).tag = "Ok"
    /\ \E n \in 1..Len(subs) : Corresponds(frame, subs[n])

\* the event the consumer is given for the frame
IsEventOf(ev, frame, subs) ==
    /\ ev.exchange_time = datetime_utc_from_epoch_ms(frame.E)
    /\ ev.kind.close_time = datetime_utc_from_epoch_ms(frame.k.T)
    /\ \E n \in 1..Len(subs) :
          Corresponds(frame, subs[n]) /\ ev.instrument = subs[n].instrument

\* a step that reports a per-message error of a Streaming group delivers no event
\* and leaves the group Streaming, its connection open and its stream not ended
ErrorFrameKeepsStreaming ==
    [][\A g \in Groups :
          (gstate[g] = "Streaming" /\ reported'[g] # reported[g]) =>
              /\ gstate'[g] = "Streaming"
              /\ output'[g] = output[g]
              /\ socket'[g] = socket[g]
              /\ ended'[g] = ended[g]]_vars

\* C10: in Streaming a frame that fails to decode or to resolve yields no event,
\* leaves the group Streaming and is not given to the consumer as the end of the
\* stream, and the frames that arrive after it are still transformed and
\* delivered.
C10_ErrorFrameIsNotFatal ==
    \A g \in Groups :
        /\ (gstate[g] = "Streaming" /\ reported[g] # << >>) => ~ended[g]
        /\ Len(output[g]) <=
              Cardinality({ i \in 1..Len(inbound[g]) : IsMessageOf(inbound[g][i], batch[g]) })
        /\ \A i, j \in 1..Len(inbound[g]) :
              (/\ i < j
               /\ ~IsMessageOf(inbound[g][i], batch[g])
               /\ IsMessageOf(inbound[g][j], batch[g]))
                  => \E k \in 1..Len(output[g]) :
                        IsEventOf(output[g][k], inbound[g][j], batch[g])

---------------------------------------------------------------------------
(* Stream registry: Streams<Kind>, select(ExchangeId) and join()            *)

SubTradesUnserved(x) ==
    [exchange |-> x,
     instrument |-> [base |-> "bnb", quote |-> "btc", kind |-> UnservedKind(x)],
     kind |-> PublicTrades]

\* the configurations of the builder: a Streams<PublicTrades> and a
\* Streams<Candles> with one batch per exchange, and one whose second batch does
\* not validate
Configurations ==
    { [g \in Groups |-> << SubTradesBnbBtc(GroupExchange(g)) >>],
      [g \in Groups |-> << SubBnbBtc1m(GroupExchange(g)) >>],
      [g \in Groups |-> IF g = 1 THEN << SubTradesBnbBtc(GroupExchange(g)) >>
                                 ELSE << SubTradesUnserved(GroupExchange(g)) >>] }

select_keeps(registry, g) ==
    IF g \in registry
    THEN [streams |-> registry, receiver |-> Ok(g)]
    ELSE [streams |-> registry, receiver |-> Err(g)]

\* Streams::select: the receiver of the exchange is taken out of the registry
select(registry, g) ==
    IF g \in registry
    THEN [streams |-> registry \ {g}, receiver |-> Ok(g)]
    ELSE [streams |-> registry, receiver |-> Err(g)]

forward_twice(channel, ev) == Append(Append(channel, ev), ev)

\* a send into the joined channel: the event is queued behind those sent before
forward(channel, ev) == Append(channel, ev)

\* the events pending in the joined channel
Pending == Len(merged) - pulled

InitMux ==
    /\ sub \in {[exchange |-> "BinanceSpot",
                 instrument |-> [base |-> "bnb", quote |-> "btc", kind |-> "Spot"],
                 kind |-> Candles("Minute1")]}
    /\ validated = None
    /\ CandleIdle
    /\ MapIdle
    /\ batch \in Configurations
    /\ gstate = [g \in Groups |-> "Building"]
    /\ gmap = [g \in Groups |-> None]
    /\ socket = [g \in Groups |-> "none"]
    /\ sent = [g \in Groups |-> << >>]
    /\ inbound = [g \in Groups |-> << >>]
    /\ output = [g \in Groups |-> << >>]
    /\ reported = [g \in Groups |-> << >>]
    /\ ended = [g \in Groups |-> FALSE]
    /\ RegistryIdle

\* the reconnection policy of a group: disabled for the spot connection, enabled
\* for the futures connection
ReconnectPolicy(g) == g # 1

\* Streaming -> Reconnecting: the transport signals a recoverable disconnect
TransportError(g) ==
    /\ gstate[g] = "Streaming"
    /\ ReconnectPolicy(g)
    /\ gstate' = [gstate EXCEPT ![g] = "Reconnecting"]
    /\ socket' = [socket EXCEPT ![g] = "closed"]
    /\ UNCHANGED <<notStreams, batch, gmap, sent, inbound, output, reported, ended>>

\* Reconnecting -> Connecting after the backoff
Reconnect(g) ==
    /\ gstate[g] = "Reconnecting"
    /\ gstate' = [gstate EXCEPT ![g] = "Connecting"]
    /\ UNCHANGED <<notStreams, batch, gmap, socket, sent, inbound, output, reported, ended>>

\* init() returns the registry once every batch has validated
InitDone ==
    /\ ~initialised
    /\ \A g \in Groups : gstate[g] \notin {"Building", "Failed"}
    /\ initialised' = TRUE
    /\ streams' = Groups
    /\ UNCHANGED <<notRegistry, svars, handles, granted, select_result, joined,
                   forwarding, read, merged, pulled>>

\* streams.select(exchange)
Select(g) ==
    /\ initialised
    /\ ~joined
    /\ LET r == select(streams, g)
       IN  /\ streams' = r.streams
           /\ select_result' = r.receiver
           /\ handles' = IF r.receiver.tag = "Ok" THEN handles \cup {g} ELSE handles
           /\ granted' = IF r.receiver.tag = "Ok"
                         THEN [granted EXCEPT ![g] = @ + 1] ELSE granted
    /\ UNCHANGED <<notRegistry, svars, initialised, joined, forwarding, read, merged, pulled>>

\* streams.join(): every receiver left in the registry feeds the joined channel
Join ==
    /\ initialised
    /\ ~joined
    /\ joined' = TRUE
    /\ forwarding' = streams
    /\ streams' = {}
    /\ UNCHANGED <<notRegistry, svars, initialised, handles, granted, select_result,
                   read, merged, pulled>>

\* the consumer receives the next event of a selected exchange: recv().await
Recv(g) ==
    /\ g \in handles
    /\ read[g] < Len(output[g])
    /\ read' = [read EXCEPT ![g] = @ + 1]
    /\ UNCHANGED <<notRegistry, svars, initialised, streams, handles, granted,
                   select_result, joined, forwarding, merged, pulled>>

\* the forwarding task of a joined exchange moves its next event into the joined
\* channel
Forward(g) ==
    /\ g \in forwarding
    /\ read[g] < Len(output[g])
    /\ may_send(Pending)
    /\ merged' = forward(merged, output[g][read[g] + 1])
    /\ read' = [read EXCEPT ![g] = @ + 1]
    /\ UNCHANGED <<notRegistry, svars, initialised, streams, handles, granted,
                   select_result, joined, forwarding, pulled>>

\* the consumer receives the next event of the joined channel
RecvJoined ==
    /\ joined
    /\ pulled < Len(merged)
    /\ pulled' = pulled + 1
    /\ UNCHANGED <<notRegistry, svars, initialised, streams, handles, granted,
                   select_result, joined, forwarding, read, merged>>

NextMux ==
    \/ \E g \in Groups : BuildOk(g)
    \/ \E g \in Groups : BuildFail(g)
    \/ \E g \in Groups : Connect(g)
    \/ \E g \in Groups : ConnectError(g)
    \/ \E g \in Groups : HandleFrame(g)
    \/ \E g \in Groups : TransportClosed(g)
    \/ \E g \in Groups : TransportError(g)
    \/ \E g \in Groups : Reconnect(g)
    \/ InitDone
    \/ \E g \in Groups : Select(g)
    \/ Join
    \/ \E g \in Groups : Recv(g)
    \/ \E g \in Groups : Forward(g)
    \/ RecvJoined

SpecMux == InitMux /\ [][NextMux]_vars

\* the frame is one the group's transformer turns into events
YieldsEvents(g, frame) ==
    \E clock \in ArrivalClock :
        TransformOf(batch[g], gmap[g], ExchangeID(GroupExchange(g)), frame, clock).events # << >>

\* the frames of the group that yielded events, in arrival order
YieldingFrames(g) == SelectSeq(inbound[g], LAMBDA frame : YieldsEvents(g, frame))

\* the event carries the exchange time, and the trade id or close time, of the frame
IsEventOfFrame(ev, frame) ==
    IF "k" \in DOMAIN frame
    THEN /\ ev.exchange_time = datetime_utc_from_epoch_ms(frame.E)
         /\ ev.kind.close_time = datetime_utc_from_epoch_ms(frame.k.T)
    ELSE /\ ev.exchange_time = datetime_utc_from_epoch_ms(frame.T)
         /\ ev.kind.id = frame.t

\* the events of the joined channel that come from the group, in order
MergedOf(g) ==
    SelectSeq(merged, LAMBDA ev : ev.exchange = as_str(ExchangeID(GroupExchange(g))))

\* C11: within one connection group the events are delivered in the arrival order
\* of the frames they were produced from: the k-th event of the group's output is
\* the event of the k-th frame that yielded events, and what the consumer has
\* received of the group, directly or through the joined channel, is a prefix of
\* that output.
C11_GroupOrderIsArrivalOrder ==
    \A g \in Groups :
        LET yielding == YieldingFrames(g)
        IN  /\ Len(output[g]) = Len(yielding)
            /\ \A k \in 1..Len(output[g]) : IsEventOfFrame(output[g][k], yielding[k])
            /\ read[g] <= Len(output[g])
            /\ g \in forwarding => MergedOf(g) = SubSeq(output[g], 1, read[g])

\* two trade messages arrived with the later trade id first, and the consumer of
\* the selected exchange has received both events in that order
C11_Witness ==
    /\ inbound[1] = << TradeFrame("BNBBTC", 1000000001), TradeFrame("BNBBTC", 1000000000) >>
    /\ Len(output[1]) = 2
    /\ output[1][1].kind.id = 1000000001
    /\ output[1][2].kind.id = 1000000000
    /\ 1 \in handles
    /\ read[1] = 2

RECURSIVE SumOver(_, _)
\* the sum of count[g] over the groups of the set
SumOver(set, count) ==
    IF set = {} THEN 0
    ELSE LET g == CHOOSE x \in set : TRUE
         IN  count[g] + SumOver(set \ {g}, count)

\* every joined source is closed and the consumer has pulled everything
JoinExhausted ==
    /\ joined
    /\ \A g \in forwarding : ended[g] /\ read[g] = Len(output[g])
    /\ pulled = Len(merged)

\* C12: the joined stream loses and duplicates nothing: the joined channel holds
\* exactly the events taken from the joined groups' outputs, each carrying the
\* ExchangeId of its group, and once every source is closed and the consumer has
\* pulled everything it has received as many events as the groups produced.
C12_JoinLosesAndDuplicatesNothing ==
    /\ Len(merged) = SumOver(forwarding, read)
    /\ pulled <= Len(merged)
    /\ \A k \in 1..Len(merged) :
          \E g \in forwarding :
              /\ merged[k].exchange = as_str(ExchangeID(GroupExchange(g)))
              /\ \E n \in 1..Len(output[g]) : merged[k] = output[g][n]
    /\ \A g \in forwarding : Len(MergedOf(g)) = read[g]
    /\ JoinExhausted =>
          /\ pulled = SumOver(forwarding, [g \in Groups |-> Len(output[g])])
          /\ \A g \in forwarding : MergedOf(g) = output[g]

\* two joined groups produced two and three events under an interleaving that
\* starts with the futures group, both are closed and the consumer has pulled
\* all five
C12_Witness ==
    /\ JoinExhausted
    /\ forwarding = Groups
    /\ Len(output[1]) = 2
    /\ Len(output[2]) = 3
    /\ pulled = 5
    /\ merged[1].exchange = "binance_futures_usd"
    /\ merged[2].exchange = "binance_spot"

C14_SelectSucceedsAtMostOnce ==
    \A g \in Groups :
        /\ granted[g] <= 1
        /\ g \in handles <=> granted[g] = 1
        /\ g \in handles => select(streams, g).receiver = Err(g)
        /\ (g \in handles /\ read[g] < Len(output[g])) => ENABLED Recv(g)
        /\ (g \in handles /\ gstate[g] = "Streaming" /\ Len(inbound[g]) < FrameLimit(g))
              => ENABLED HandleFrame(g)

\* the spot exchange was selected, a further select of it has failed, and its
\* receiver, which has received one event, has the next one to receive
C14_Witness ==
    /\ granted[1] = 1
    /\ select_result = Err(1)
    /\ 1 \in handles
    /\ read[1] = 1
    /\ Len(output[1]) = 2
    /\ ENABLED Recv(1)

\* C15: connection groups are isolated: a Streaming group with frames to come goes
\* on delivering whatever the state of the other groups and however slow the
\* consumer is; a step in which one group changes state, to Closed or
\* Reconnecting, changes nothing of any other group; and the end of stream is
\* signalled on the output of a group exactly when that group is Closed.
C15_GroupsAreIsolated ==
    /\ [](\A h \in Groups :
            /\ (gstate[h] = "Streaming" /\ Len(inbound[h]) < FrameLimit(h))
                  => ENABLED HandleFrame(h)
            /\ ended[h] <=> gstate[h] = "Closed")
    /\ [][\A g \in Groups :
            gstate'[g] # gstate[g] =>
                \A h \in Groups \ {g} :
                    /\ gstate'[h] = gstate[h]
                    /\ socket'[h] = socket[h]
                    /\ inbound'[h] = inbound[h]
                    /\ output'[h] = output[h]
                    /\ reported'[h] = reported[h]
                    /\ ended'[h] = ended[h]]_vars

\* the futures group is Closed and its output ended, the joined consumer has
\* pulled nothing, and the spot group is Streaming, has delivered an event and
\* can deliver the next
C15_Witness ==
    /\ gstate[2] = "Closed"
    /\ ended[2]
    /\ joined
    /\ pulled = 0
    /\ gstate[1] = "Streaming"
    /\ ~ended[1]
    /\ Len(output[1]) = 1
    /\ Backlog(1) = 1
    /\ ENABLED HandleFrame(1)

====
